---- MODULE Spec2Model ----
(***************************************************************************)
(* A model of the two notebooks of the repository:                         *)
(*   - API/api_data_wrangling_mini_project: the stock-price dictionary,    *)
(*     the intra-day and day-over-day differences, the mean and the median *)
(*     of the traded volumes;                                              *)
(*   - Frequentist Case Study (Part B): the confidence interval and the    *)
(*     pooled two-sample t-test.                                           *)
(* A notebook is a set of cells over a shared namespace: the namespace is  *)
(* the state (a name not yet bound holds the empty list), a cell is an      *)
(* action.  Python values are modelled as follows:                         *)
(* a list is a sequence; an element of a list or a field of a record is    *)
(* None, the empty tuple, or a number v, the one-element tuple <<v>>; the  *)
(* result of a computation is Value(v), with v a rational in lowest terms  *)
(* where an addition or a true division produced it, or Raise(e), e the    *)
(* exception's name.  The numbers of the lists are floats: an addition or  *)
(* a division returns the representable number nearest to its exact        *)
(* result, with MantissaBits significant bits where a float64 has 53.  The *)
(* interval of Part B is computed in the same rounded arithmetic; its      *)
(* t-test is kept exact (rationals and their square roots), its formulas   *)
(* being symmetric in the two groups operation by operation.               *)
(***************************************************************************)
EXTENDS Integers, Sequences, FiniteSets, TLC

VARIABLES
    pc,              \* "Run All" of the data-wrangling notebook: the next cell,
                     \* "done" after the last one, "halt" once a cell has raised
    bound,           \* the names among those below that an assignment has bound
    json_data,       \* json_data['dataset_data']['data'] of the API's response
    afx_2017_data,   \* the dictionary of cell 15
    opening_prices,  \* cell 16
    price_differences,    \* cell 17
    closing_prices,       \* cell 19
    closing_differences,  \* cell 19
    out,             \* what each of the cells 16..20 printed, or the exception it raised
    daily_volumes,   \* the list object the name daily_volumes is bound to (cell 21)
    mean_volume,     \* outcome of cell 22 (sum / len)
    mean_match,      \* outcome of cell 23 (statistics.mean == mean_volume)
    stat_median,     \* outcome of cell 24 (statistics.median)
    med,             \* outcome of the last call of median (cells 26, 27)
    match,           \* outcome of cell 27 (statistics.median == median)
    medical,         \* Part B: the rows of the data frame (charges, insuranceclaim)
    std_shown,       \* Part B, cell 6: the value of medical['charges'].std()
    n, t_star,       \* Part B, cell 7: the number of rows and the critical value
    x_bar, se,       \* Part B, cell 8: the mean of the charges and its standard error
    m, c_min, c_max, \* Part B, cell 9: the margin and the two ends of the interval
    group_0, group_1,     \* Part B, cell 10: the boolean masks of the two groups
    n_0, xbar_0, s_0,     \* Part B, cell 11: the group without insurance claims
    n_1, xbar_1, s_1,     \* Part B, cell 11: the group with insurance claims
    all_data,        \* Part B, cell 12: the value of n_0 + n_1 == n
    s_p, t_manual, df, p_manual,   \* Part B, cell 13
    t_calc, p_calc,  \* Part B, cell 14: the statistic and the p-value of ttest_ind
    raised           \* Part B: the exception that stopped the run, "" when none did

lists == <<json_data, afx_2017_data, opening_prices, price_differences,
           closing_prices, closing_differences, out>>
prices == <<pc, bound, lists>>
stats == <<mean_volume, mean_match, stat_median, med, match>>
groups == <<group_0, group_1, n_0, xbar_0, s_0, n_1, xbar_1, s_1>>
test == <<s_p, t_manual, df, p_manual>>
reference == <<t_calc, p_calc>>
interval == <<n, t_star, x_bar, se, m, c_min, c_max>>
partB == <<medical, std_shown, interval, groups, all_data, test, reference, raised>>
vars == <<prices, daily_volumes, stats, partB>>

\* ------------------------------------------------------------------ bounds
MaxLen == 4      \* longest list drawn as an input
MaxVal == 4      \* largest observation drawn as an input
MantissaBits == 3   \* significant bits of a rounded float (a float64 keeps 53)

\* ------------------------------------------------------------ Python values
None == <<>>
Some(v) == <<v>>
Num(v) == v[1]

Unset == [kind |-> "unset"]
Raise(e) == [kind |-> "raise", exc |-> e]
Value(v) == [kind |-> "value", val |-> v]

RECURSIVE GCD(_, _)
GCD(a, b) == IF b = 0 THEN a ELSE GCD(b, a % b)

Abs(a) == IF a < 0 THEN -a ELSE a

\* The number n/d (d > 0) as a rational in lowest terms.
Rat(p, d) ==
    LET g == GCD(Abs(p), d)
    IN  [num |-> p \div g, den |-> d \div g]

Sign(a) == IF a > 0 THEN 1 ELSE IF a < 0 THEN -1 ELSE 0

RatAdd(a, b) == Rat(a.num * b.den + b.num * a.den, a.den * b.den)
RatSub(a, b) == Rat(a.num * b.den - b.num * a.den, a.den * b.den)
RatMul(a, b) == Rat(a.num * b.num, a.den * b.den)
\* a / b, b # 0
RatDiv(a, b) == Rat(Sign(b.num) * a.num * b.den, a.den * Abs(b.num))

\* Rounded floats: an operation returns the representable number nearest to its
\* exact result, a tie going to the even mantissa.
\* the integer nearest to num / den (num >= 0, den > 0), a tie going to the even one
RoundHalfEven(num, den) ==
    LET q == num \div den
        r == num % den
    IN  IF 2 * r < den THEN q
        ELSE IF 2 * r > den THEN q + 1
        ELSE IF q % 2 = 0 THEN q ELSE q + 1

\* the representable number nearest to num / den (num >= 0, den > 0)
RECURSIVE FlRoundPos(_, _)
FlRoundPos(num, den) ==
    IF num = 0 THEN Rat(0, 1)
    ELSE IF num >= (2 ^ MantissaBits) * den
         THEN RatMul(Rat(2, 1), FlRoundPos(num, 2 * den))
    ELSE IF num < (2 ^ (MantissaBits - 1)) * den
         THEN RatMul(Rat(1, 2), FlRoundPos(2 * num, den))
    ELSE Rat(RoundHalfEven(num, den), 1)

FlRound(r) ==
    IF r.num < 0
    THEN LET a == FlRoundPos(-r.num, r.den) IN Rat(-a.num, a.den)
    ELSE FlRoundPos(r.num, r.den)

\* Python's a + b on two numbers
Add(a, b) == FlRound(RatAdd(a, b))

\* Python's a / b, b an int >= 0: true division, ZeroDivisionError when b = 0.
TrueDiv(a, b) ==
    IF b = 0 THEN Raise("ZeroDivisionError") ELSE Value(FlRound(RatDiv(a, Rat(b, 1))))

\* Python's s[i] on a list: 0-based, a negative index counts from the end,
\* IndexError outside the list.
Index(s, i) ==
    IF i >= 0
    THEN IF i < Len(s) THEN Value(s[i + 1]) ELSE Raise("IndexError")
    ELSE IF -i <= Len(s) THEN Value(s[Len(s) + i + 1]) ELSE Raise("IndexError")

\* sum(s) of a list of numbers: the running total from the left, rounded after
\* each addition
RECURSIVE Sum(_)
Sum(s) ==
    IF s = <<>> THEN Rat(0, 1)
    ELSE Add(Sum(SubSeq(s, 1, Len(s) - 1)), Rat(Num(s[Len(s)]), 1))

\* list.sort(): the list in ascending order (insertion of each element in turn
\* after the elements not greater than it, which keeps equal elements in order).
RECURSIVE Insert(_, _)
Insert(s, v) ==
    IF s = <<>> THEN <<v>>
    ELSE IF Num(Head(s)) <= Num(v) THEN <<Head(s)>> \o Insert(Tail(s), v)
    ELSE <<v>> \o s

RECURSIVE Sort(_)
Sort(s) == IF s = <<>> THEN <<>> ELSE Insert(Sort(SubSeq(s, 1, Len(s) - 1)), s[Len(s)])

\* ------------------------------------------------------------------ median
\* median with the call of sort() left out.
median_unsorted(x) ==
    LET sorted_list == x
        l == Len(sorted_list)
    IN  IF l % 2 = 1
        THEN [ret |-> Value(Rat(Num(sorted_list[(l - 1) \div 2 + 1]), 1)), x |-> sorted_list]
        ELSE [ret |-> IF l = 0 THEN Raise("IndexError")
                      ELSE TrueDiv(Add(Rat(Num(sorted_list[l \div 2]), 1),
                                       Rat(Num(sorted_list[l \div 2 + 1]), 1)), 2),
              x |-> sorted_list]

\* def median(x), x a list of numbers: the returned outcome and the list x is
\* bound to afterwards.
\* sorted_list = x binds a second name to the same list object, so
\* sorted_list.sort() sorts the caller's list.
median(x) ==
    LET sorted_list == Sort(x)
        l == Len(sorted_list)
    IN  IF l % 2 = 1
        THEN LET i == (l - 1) \div 2
             IN  [ret |-> LET e == Index(sorted_list, i)
                          IN  IF e.kind = "raise" THEN e ELSE Value(Rat(Num(e.val), 1)),
                  x |-> sorted_list]
        ELSE LET i == l \div 2
                 a == Index(sorted_list, i - 1)
                 b == Index(sorted_list, i)
             IN  [ret |-> IF a.kind = "raise" THEN a
                          ELSE IF b.kind = "raise" THEN b
                          ELSE TrueDiv(Add(Rat(Num(a.val), 1), Rat(Num(b.val), 1)), 2),
                  x |-> sorted_list]

\* statistics.median(data) of the standard library, by order statistics: the
\* k-th smallest value of data is the v with fewer than k values below it and at
\* least k values not above it.  StatisticsError on empty data.
KthSmallest(data, k) ==
    CHOOSE v \in {Num(data[j]) : j \in 1..Len(data)} :
        /\ Cardinality({j \in 1..Len(data) : Num(data[j]) < v}) < k
        /\ Cardinality({j \in 1..Len(data) : Num(data[j]) <= v}) >= k

statistics_median(data) ==
    LET len == Len(data)
    IN  IF len = 0 THEN Raise("StatisticsError")
        ELSE IF len % 2 = 1 THEN Value(Rat(KthSmallest(data, (len + 1) \div 2), 1))
        ELSE TrueDiv(Add(Rat(KthSmallest(data, len \div 2), 1),
                         Rat(KthSmallest(data, len \div 2 + 1), 1)), 2)

\* the sum divided by one less than the count
mean_one_short(x) ==
    IF \E j \in 1..Len(x) : x[j] = None THEN Raise("TypeError")
    ELSE TrueDiv(Sum(x), IF Len(x) > 1 THEN Len(x) - 1 ELSE Len(x))

\* mean_volume = sum(daily_volumes) / len(daily_volumes); sum raises TypeError
\* on a None.
mean(x) ==
    IF \E j \in 1..Len(x) : x[j] = None THEN Raise("TypeError")
    ELSE TrueDiv(Sum(x), Len(x))

\* the exact sum of a list of numbers
RECURSIVE ExactSum(_)
ExactSum(s) == IF s = <<>> THEN 0 ELSE Num(Head(s)) + ExactSum(Tail(s))

\* statistics.mean(data) of the standard library: the exact sum of the data as
\* a fraction, divided by the count and rounded once.  StatisticsError on empty
\* data.
statistics_mean(data) ==
    IF data = <<>> THEN Raise("StatisticsError")
    ELSE Value(FlRound(Rat(ExactSum(data), Len(data))))

PrintingCells == 16..20

\* floating-point values: not-a-number, and (further down) the finite and the
\* infinite ones.
NaN == [kind |-> "nan"]

\* The namespace of Part B before any of its cells has run.
\* the names of Part B before any of its cells has run
PartBUnbound ==
    /\ std_shown = Unset
    /\ n = 0 /\ t_star = NaN
    /\ x_bar = NaN /\ se = NaN
    /\ m = NaN /\ c_min = NaN /\ c_max = NaN
    /\ group_0 = <<>> /\ group_1 = <<>>
    /\ n_0 = 0 /\ xbar_0 = NaN /\ s_0 = NaN
    /\ n_1 = 0 /\ xbar_1 = NaN /\ s_1 = NaN
    /\ all_data = Unset
    /\ s_p = NaN /\ t_manual = NaN /\ df = 0 /\ p_manual = NaN
    /\ t_calc = NaN /\ p_calc = NaN
    /\ raised = ""

PartBNotRun == medical = <<>> /\ PartBUnbound

\* ------------------------------------------------------ summary-statistics cells
RECURSIVE SeqsUpTo(_, _)
SeqsUpTo(S, len) ==
    IF len = 0 THEN {<<>>}
    ELSE LET shorter == SeqsUpTo(S, len - 1)
         IN  shorter \cup {Append(s, v) : s \in {t \in shorter : Len(t) = len - 1}, v \in S}

Samples == SeqsUpTo({Some(v) : v \in 0..MaxVal}, MaxLen)

InitStats ==
    /\ daily_volumes \in Samples
    /\ pc = "done"
    /\ bound = {"daily_volumes"}
    /\ json_data = <<>>
    /\ afx_2017_data = <<>>
    /\ opening_prices = <<>>
    /\ price_differences = <<>>
    /\ closing_prices = <<>>
    /\ closing_differences = <<>>
    /\ out = [c \in PrintingCells |-> Unset]
    /\ mean_volume = Unset
    /\ mean_match = Unset
    /\ stat_median = Unset
    /\ med = Unset
    /\ match = Unset
    /\ PartBNotRun

\* cell 22
MeanCell ==
    /\ mean_volume' = mean(daily_volumes)
    /\ UNCHANGED <<prices, daily_volumes, mean_match, stat_median, med, match, partB>>

\* cell 23: statistics.mean(daily_volumes) == mean_volume; the left operand is
\* evaluated first, and mean_volume is a name without a value when cell 22 has
\* not run or has raised.
MeanCompareCell ==
    LET lhs == statistics_mean(daily_volumes)
    IN  /\ mean_match' = IF lhs.kind = "raise" THEN lhs
                         ELSE IF mean_volume.kind # "value" THEN Raise("NameError")
                         ELSE Value(lhs = mean_volume)
        /\ UNCHANGED <<prices, daily_volumes, mean_volume, stat_median, med, match, partB>>

\* cell 24
StatisticsMedianCell ==
    /\ stat_median' = statistics_median(daily_volumes)
    /\ UNCHANGED <<prices, daily_volumes, mean_volume, mean_match, med, match, partB>>

\* cell 26
MedianCell ==
    /\ med' = median(daily_volumes).ret
    /\ daily_volumes' = median(daily_volumes).x
    /\ UNCHANGED <<prices, mean_volume, mean_match, stat_median, match, partB>>

\* cell 27: statistics.median(daily_volumes) == median(daily_volumes); the left
\* operand is evaluated first, and an exception ends the cell there.
CompareCell ==
    LET lhs == statistics_median(daily_volumes)
        rhs == median(daily_volumes)
    IN  IF lhs.kind = "raise"
        THEN /\ match' = lhs
             /\ UNCHANGED <<prices, daily_volumes, mean_volume, mean_match, stat_median,
                            med, partB>>
        ELSE /\ daily_volumes' = rhs.x
             /\ med' = rhs.ret
             /\ match' = IF rhs.ret.kind = "raise" THEN rhs.ret ELSE Value(lhs = rhs.ret)
             /\ UNCHANGED <<prices, mean_volume, mean_match, stat_median, partB>>

NextStats ==
    MeanCell \/ MeanCompareCell \/ StatisticsMedianCell \/ MedianCell \/ CompareCell

SpecStats == InitStats /\ [][NextStats]_vars

\* ------------------------------------------------------------ claims C1..C5
RECURSIVE Perms(_)
Perms(s) ==
    IF s = <<>> THEN {<<>>}
    ELSE UNION {{<<s[j]>> \o p : p \in Perms(SubSeq(s, 1, j - 1) \o SubSeq(s, j + 1, Len(s)))} :
                j \in 1..Len(s)}

IsAscending(s) == \A j \in 1..(Len(s) - 1) : Num(s[j]) <= Num(s[j + 1])

\* C1: on every non-empty list median returns the middle element of the
\* ascending list (odd length) or the mean of its two middle elements (even
\* length), which is what statistics.median returns; cell 27 prints True.
C1_MedianIsReferenceMedian ==
    /\ daily_volumes # <<>> =>
          LET r == median(daily_volumes)
              l == Len(daily_volumes)
          IN  /\ r.ret = statistics_median(daily_volumes)
              /\ IsAscending(r.x)
              /\ r.x \in Perms(daily_volumes)
              /\ l % 2 = 1 => r.ret = Value(Rat(Num(r.x[(l + 1) \div 2]), 1))
              /\ l % 2 = 0 =>
                    r.ret = TrueDiv(Add(Rat(Num(r.x[l \div 2]), 1),
                                        Rat(Num(r.x[l \div 2 + 1]), 1)), 2)
    /\ (match.kind = "value" /\ daily_volumes # <<>>) => match.val = TRUE
    /\ (med.kind # "unset" /\ daily_volumes # <<>>) => med = statistics_median(daily_volumes)

\* C1 witness: cell 27 has compared the two medians of an even-length list
\* whose two middle elements differ.
C1_Witness ==
    /\ match = Value(TRUE)
    /\ Len(daily_volumes) = 4
    /\ med = Value(Rat(5, 2))

\* C2: a call of median leaves the caller's list as it was, element by element.
C2_MedianLeavesListUnchanged ==
    [][(MedianCell \/ CompareCell) => daily_volumes' = daily_volumes]_vars

\* C3: median gives the same value on every permutation of a non-empty list.
C3_MedianPermutationInvariant ==
    daily_volumes # <<>> =>
        \A P \in Perms(daily_volumes) : median(P).ret = median(daily_volumes).ret

\* C3 witness: median has been called on a list that has an unsorted permutation.
C3_Witness ==
    /\ med.kind = "value"
    /\ Len(daily_volumes) >= 3
    /\ Num(daily_volumes[1]) < Num(daily_volumes[2])
    /\ Num(daily_volumes[2]) < Num(daily_volumes[3])
    /\ med = median(<<daily_volumes[3], daily_volumes[1], daily_volumes[2]>>
                    \o SubSeq(daily_volumes, 4, Len(daily_volumes))).ret

\* C4: the median of a non-empty list followed by itself is the median of the list.
C4_MedianDuplicationInvariant ==
    /\ daily_volumes # <<>> =>
          median(daily_volumes \o daily_volumes).ret = median(daily_volumes).ret
    /\ (med.kind # "unset" /\ daily_volumes # <<>>) =>
          med = median(daily_volumes \o daily_volumes).ret

\* C4 witness: the list [1, 2, 3, 4], whose median 2.5 has been computed.
C4_Witness ==
    /\ daily_volumes = <<Some(1), Some(2), Some(3), Some(4)>>
    /\ med = Value(Rat(5, 2))
    /\ median(daily_volumes \o daily_volumes).ret = Value(Rat(5, 2))

\* C5: on an empty list the mean and the median end in EmptyInputError, and in
\* no other outcome.
C5_EmptyInputError ==
    daily_volumes = <<>> =>
        /\ mean_volume.kind # "unset" => mean_volume = Raise("EmptyInputError")
        /\ med.kind # "unset" => med = Raise("EmptyInputError")

\* ------------------------------------------------- the stock-price dictionary
\* json_data['dataset_data']['column_names'], cut to the columns the notebook
\* reads; a row of json_data holds one value per column, in this order.
column_names == <<"Date", "Open", "High", "Low", "Close", "Traded Volume">>

\* dict(zip(column_names, stock_day)): zip stops at the shorter of the two, and
\* a repeated key keeps its last value.
DictZip(names, row) ==
    LET len == IF Len(names) < Len(row) THEN Len(names) ELSE Len(row)
        Last(c) == CHOOSE j \in 1..len : names[j] = c /\ \A k \in (j + 1)..len : names[k] # c
    IN  [c \in {names[j] : j \in 1..len} |-> row[Last(c)]]

\* d.pop(key, None): the value removed (None when the key is absent) and the
\* dictionary without the key.
Pop(d, key) ==
    [val |-> IF key \in DOMAIN d THEN d[key] ELSE None,
     rest |-> [c \in DOMAIN d \ {key} |-> d[c]]]

\* A Python dictionary keeps its keys in the order of their first insertion:
\* a sequence of entries with distinct keys.  D[key] = val replaces the value of
\* a key already there, at its place, and appends a new key.
DictAssign(D, key, val) ==
    IF \E j \in 1..Len(D) : D[j].key = key
    THEN [j \in 1..Len(D) |-> IF D[j].key = key THEN [key |-> key, val |-> val] ELSE D[j]]
    ELSE Append(D, [key |-> key, val |-> val])

\* create_stock_price_dict keeping the rows whose opening price is None too.
RECURSIVE create_stock_price_dict_unfiltered(_)
create_stock_price_dict_unfiltered(data) ==
    IF data = <<>> THEN <<>>
    ELSE LET stock_price_dict == create_stock_price_dict_unfiltered(SubSeq(data, 1, Len(data) - 1))
             popped == Pop(DictZip(column_names, data[Len(data)]), "Date")
         IN  DictAssign(stock_price_dict, popped.val, popped.rest)

\* def create_stock_price_dict(json_data), on the rows of json_data: the loop
\* over the rows, the last row handled last.
RECURSIVE create_stock_price_dict(_)
create_stock_price_dict(data) ==
    IF data = <<>> THEN <<>>
    ELSE LET stock_price_dict == create_stock_price_dict(SubSeq(data, 1, Len(data) - 1))
             stock_day == data[Len(data)]
             current_day_prices == DictZip(column_names, stock_day)
         IN  IF current_day_prices["Open"] # None
             THEN LET popped == Pop(current_day_prices, "Date")
                  IN  DictAssign(stock_price_dict, popped.val, popped.rest)
             ELSE stock_price_dict

\* ------------------------------------------------------ lists and their extremes
\* [ d[field] for d in D.values() ], D.values() in the order of the keys
Column(D, field) == [j \in 1..Len(D) |-> D[j].val[field]]

\* max(s) and min(s) of a list of numbers: ValueError on the empty list.
Max(s) ==
    IF s = <<>> THEN Raise("ValueError")
    ELSE Value(CHOOSE mx \in {Num(s[j]) : j \in 1..Len(s)} : \A j \in 1..Len(s) : Num(s[j]) <= mx)

Min(s) ==
    IF s = <<>> THEN Raise("ValueError")
    ELSE Value(CHOOSE mn \in {Num(s[j]) : j \in 1..Len(s)} : \A j \in 1..Len(s) : mn <= Num(s[j]))

\* [ d['High'] - d['Low'] for d in D.values() ]: TypeError at the first record
\* with a None operand.
price_differences_of(D) ==
    IF \E j \in 1..Len(D) : D[j].val["High"] = None \/ D[j].val["Low"] = None
    THEN Raise("TypeError")
    ELSE Value([j \in 1..Len(D) |-> Some(Num(D[j].val["High"]) - Num(D[j].val["Low"]))])

\* the day-over-day differences without the absolute value.
closing_differences_signed(cp) ==
    LET len == IF Len(cp) = 0 THEN 0 ELSE Len(cp) - 1
    IN  IF \E j \in 1..len : cp[j + 1] = None \/ cp[j] = None
        THEN Raise("TypeError")
        ELSE Value([j \in 1..len |-> Some(Num(cp[j + 1]) - Num(cp[j]))])

\* [ abs(a - b) for a, b in zip(cp[1:], cp[:-1]) ]: cp[1:] and cp[:-1] are empty
\* for a list of at most one element, and the j-th pair is (cp[j+1], cp[j]).
closing_differences_of(cp) ==
    LET len == IF Len(cp) = 0 THEN 0 ELSE Len(cp) - 1
    IN  IF \E j \in 1..len : cp[j + 1] = None \/ cp[j] = None
        THEN Raise("TypeError")
        ELSE Value([j \in 1..len |-> Some(Abs(Num(cp[j + 1]) - Num(cp[j])))])

\* ------------------------------------------------ cells 15..21, run in order
\* cell 15: afx_2017_data = create_quandl_data('2017-01-01', '2017-12-31')
Cell15 ==
    /\ pc = "15"
    /\ afx_2017_data' = create_stock_price_dict(json_data)
    /\ bound' = bound \cup {"afx_2017_data"}
    /\ pc' = "16"
    /\ UNCHANGED <<json_data, opening_prices, price_differences, closing_prices,
                   closing_differences, out, daily_volumes, stats, partB>>

\* cell 16: the opening prices, their maximum and their minimum
Cell16 ==
    /\ pc = "16"
    /\ opening_prices' = Column(afx_2017_data, "Open")
    /\ bound' = bound \cup {"opening_prices"}
    /\ LET hi == Max(opening_prices')
           lo == Min(opening_prices')
       IN  IF hi.kind = "raise"
           THEN out' = [out EXCEPT ![16] = hi] /\ pc' = "halt"
           ELSE out' = [out EXCEPT ![16] = Value(<<hi.val, lo.val>>)] /\ pc' = "17"
    /\ UNCHANGED <<json_data, afx_2017_data, price_differences, closing_prices,
                   closing_differences, daily_volumes, stats, partB>>

\* cell 17: the intra-day ranges, and print(min(price_differences) >= 0)
Cell17 ==
    /\ pc = "17"
    /\ LET pd == price_differences_of(afx_2017_data)
       IN  IF pd.kind = "raise"
           THEN /\ UNCHANGED <<price_differences, bound>>
                /\ out' = [out EXCEPT ![17] = pd]
                /\ pc' = "halt"
           ELSE /\ price_differences' = pd.val
                /\ bound' = bound \cup {"price_differences"}
                /\ LET lo == Min(pd.val)
                   IN  IF lo.kind = "raise"
                       THEN out' = [out EXCEPT ![17] = lo] /\ pc' = "halt"
                       ELSE out' = [out EXCEPT ![17] = Value(lo.val >= 0)] /\ pc' = "18"
    /\ UNCHANGED <<json_data, afx_2017_data, opening_prices, closing_prices,
                   closing_differences, daily_volumes, stats, partB>>

\* cell 18: print(max(price_differences))
Cell18 ==
    /\ pc = "18"
    /\ LET hi == Max(price_differences)
       IN  out' = [out EXCEPT ![18] = hi] /\ pc' = IF hi.kind = "raise" THEN "halt" ELSE "19"
    /\ UNCHANGED <<bound, json_data, afx_2017_data, opening_prices, price_differences,
                   closing_prices, closing_differences, daily_volumes, stats, partB>>

\* cell 19: the closing prices, their day-over-day differences, and
\* print(min(closing_differences) >= 0)
Cell19 ==
    /\ pc = "19"
    /\ closing_prices' = Column(afx_2017_data, "Close")
    /\ LET cd == closing_differences_of(closing_prices')
       IN  IF cd.kind = "raise"
           THEN /\ UNCHANGED closing_differences
                /\ bound' = bound \cup {"closing_prices"}
                /\ out' = [out EXCEPT ![19] = cd]
                /\ pc' = "halt"
           ELSE /\ closing_differences' = cd.val
                /\ bound' = bound \cup {"closing_prices", "closing_differences"}
                /\ LET lo == Min(cd.val)
                   IN  IF lo.kind = "raise"
                       THEN out' = [out EXCEPT ![19] = lo] /\ pc' = "halt"
                       ELSE out' = [out EXCEPT ![19] = Value(lo.val >= 0)] /\ pc' = "20"
    /\ UNCHANGED <<json_data, afx_2017_data, opening_prices, price_differences,
                   daily_volumes, stats, partB>>

\* cell 20: print(max(closing_differences))
Cell20 ==
    /\ pc = "20"
    /\ LET hi == Max(closing_differences)
       IN  out' = [out EXCEPT ![20] = hi] /\ pc' = IF hi.kind = "raise" THEN "halt" ELSE "21"
    /\ UNCHANGED <<bound, json_data, afx_2017_data, opening_prices, price_differences,
                   closing_prices, closing_differences, daily_volumes, stats, partB>>

\* cell 21: the traded volumes
Cell21 ==
    /\ pc = "21"
    /\ daily_volumes' = Column(afx_2017_data, "Traded Volume")
    /\ bound' = bound \cup {"daily_volumes"}
    /\ pc' = "done"
    /\ UNCHANGED <<json_data, afx_2017_data, opening_prices, price_differences,
                   closing_prices, closing_differences, out, stats, partB>>

NextPrices == Cell15 \/ Cell16 \/ Cell17 \/ Cell18 \/ Cell19 \/ Cell20 \/ Cell21

InitPrices ==
    /\ pc = "15"
    /\ bound = {}
    /\ afx_2017_data = <<>>
    /\ opening_prices = <<>>
    /\ price_differences = <<>>
    /\ closing_prices = <<>>
    /\ closing_differences = <<>>
    /\ out = [c \in PrintingCells |-> Unset]
    /\ daily_volumes = <<>>
    /\ mean_volume = Unset
    /\ mean_match = Unset
    /\ stat_median = Unset
    /\ med = Unset
    /\ match = Unset
    /\ PartBNotRun

\* Responses with one row per day, every field present: the closing prices vary
\* (the other fields are the same every day), or the high and low prices vary.
MaxPrice == 1    \* largest high or low price drawn as an input

CloseRows(closes) ==
    [j \in 1..Len(closes) |-> <<j, Some(1), Some(1), Some(0), closes[j], Some(1)>>]

RangeRows(ranges) ==
    [j \in 1..Len(ranges) |->
        <<j, Some(1), Some(ranges[j][1]), Some(ranges[j][2]), Some(1), Some(1)>>]

InitDeltas ==
    /\ InitPrices
    /\ json_data \in {CloseRows(c) : c \in Samples}
                     \cup {RangeRows(r) : r \in SeqsUpTo((0..MaxPrice) \X (0..MaxPrice), MaxLen)}

SpecDeltas == InitDeltas /\ [][NextPrices]_vars

\* Responses whose rows may repeat a date and may lack the opening price or one
\* of the other fields.
MaxRows == 2     \* most rows of such a response
Days == {1, 2}
Opens == {None, Some(1), Some(2)}
Rest == {<<Some(2), Some(1), Some(1), Some(1)>>,
         <<None, Some(1), Some(1), Some(1)>>,
         <<Some(2), None, Some(1), Some(1)>>,
         <<Some(2), Some(1), None, Some(1)>>,
         <<Some(2), Some(1), Some(1), None>>}
HoleRows == {<<d, o>> \o r : d \in Days, o \in Opens, r \in Rest}

\* Longer responses whose rows repeat dates: row j has the date and the opening
\* price drawn for it and the traded volume j, which tells the rows apart.
DatedRows(rows) ==
    [j \in 1..Len(rows) |->
        <<rows[j][1], rows[j][2], Some(2), Some(1), Some(1), Some(j)>>]

InitDict ==
    /\ InitPrices
    /\ json_data \in SeqsUpTo(HoleRows, MaxRows)
                     \cup {DatedRows(r) : r \in SeqsUpTo(Days \X {None, Some(1)}, MaxLen)}

SpecDict == InitDict /\ [][NextPrices]_vars

\* ------------------------------------------------------------ claims C6..C9
\* C6: the day-over-day sequence of N records has N-1 elements (none for
\* N <= 1), its i-th element is |Close[i] - Close[i-1]| in the order of the
\* records, and no element is negative; Close = [10, 12, 9, 15] gives
\* [2, 3, 6], of maximum 6.
C6_DayOverDay ==
    /\ "closing_differences" \in bound =>
          LET N == Len(json_data)
          IN  /\ Len(closing_prices) = N
              /\ \A j \in 1..N : closing_prices[j] = json_data[j][5]
              /\ Len(closing_differences) = (IF N <= 1 THEN 0 ELSE N - 1)
              /\ \A i \in 1..(N - 1) :
                    LET a == Num(json_data[i + 1][5])
                        b == Num(json_data[i][5])
                    IN  /\ closing_differences[i] = Some(IF a >= b THEN a - b ELSE b - a)
                        /\ Num(closing_differences[i]) >= 0
    /\ out[20].kind = "value" =>
          /\ \E i \in 1..Len(closing_differences) : Num(closing_differences[i]) = out[20].val
          /\ \A i \in 1..Len(closing_differences) : Num(closing_differences[i]) <= out[20].val
    /\ LET cd == closing_differences_of(<<Some(10), Some(12), Some(9), Some(15)>>)
       IN  cd = Value(<<Some(2), Some(3), Some(6)>>) /\ Max(cd.val) = Value(6)

\* C6 witness: four records whose closing prices rise, fall and rise as in
\* [10, 12, 9, 15]: here [1, 3, 0, 4], with differences [2, 3, 4] of maximum 4.
C6_Witness ==
    /\ closing_prices = <<Some(1), Some(3), Some(0), Some(4)>>
    /\ closing_differences = <<Some(2), Some(3), Some(4)>>
    /\ out[20] = Value(4)

\* C6 witness of the short case: one record, no difference.
C6_WitnessOneRecord ==
    /\ "closing_prices" \in bound
    /\ Len(closing_prices) = 1
    /\ closing_differences = <<>>

\* Whether some record of the dictionary has a low price above its high price.
LowAboveHigh ==
    \E j \in 1..Len(afx_2017_data) :
        /\ afx_2017_data[j].val["High"] # None
        /\ afx_2017_data[j].val["Low"] # None
        /\ Num(afx_2017_data[j].val["Low"]) > Num(afx_2017_data[j].val["High"])

\* C7: the intra-day range sequence has one element High - Low per record; with
\* a record whose Low is above its High the computation ends in
\* DataIntegrityError, reports no maximum, and leaves no negative range in its
\* result.
C7_RangeIntegrityError ==
    /\ "price_differences" \in bound =>
          /\ Len(price_differences) = Len(afx_2017_data)
          /\ \A j \in 1..Len(afx_2017_data) :
                \/ Num(price_differences[j]) =
                      Num(afx_2017_data[j].val["High"]) - Num(afx_2017_data[j].val["Low"])
                \/ LowAboveHigh
    /\ ("afx_2017_data" \in bound /\ LowAboveHigh) =>
          /\ out[17] # Unset => out[17] = Raise("DataIntegrityError")
          /\ out[18] = Unset
          /\ "price_differences" \in bound =>
                \A j \in 1..Len(price_differences) : Num(price_differences[j]) >= 0

\* The rows of json_data with an opening price.
HasOpen(j) == json_data[j][2] # None

\* The record create_stock_price_dict stores for row j: the row's columns
\* without the date.
Stored(j) == [c \in {column_names[k] : k \in 2..Len(column_names)} |->
                 json_data[j][CHOOSE k \in 2..Len(column_names) : column_names[k] = c]]

InDict(j) ==
    \E e \in 1..Len(afx_2017_data) :
        afx_2017_data[e].key = json_data[j][1] /\ afx_2017_data[e].val = Stored(j)

NoRowWithoutOpenInDict ==
    /\ \A e \in 1..Len(afx_2017_data) : afx_2017_data[e].val["Open"] # None
    /\ \A e \in 1..Len(afx_2017_data) :
          \E j \in 1..Len(json_data) :
              HasOpen(j) /\ afx_2017_data[e].key = json_data[j][1]
                         /\ afx_2017_data[e].val = Stored(j)
    /\ "opening_prices" \in bound =>
          /\ Len(opening_prices) = Len(afx_2017_data)
          /\ \A e \in 1..Len(opening_prices) : opening_prices[e] # None

\* C8 as stated: no record of the returned dictionary lacks its opening price,
\* and every row with an opening price is a record of the dictionary.
C8_KeepsEveryRowWithOpen ==
    "afx_2017_data" \in bound =>
        /\ NoRowWithoutOpenInDict
        /\ \A j \in 1..Len(json_data) : HasOpen(j) => InDict(j)

\* C8 as amended: no record of the returned dictionary lacks its opening price,
\* and every row with an opening price is a record of the dictionary unless a
\* later row with an opening price has the same date.
C8_KeepsLastRowWithOpenPerDate ==
    "afx_2017_data" \in bound =>
        /\ NoRowWithoutOpenInDict
        /\ \A j \in 1..Len(json_data) :
              (/\ HasOpen(j)
               /\ \A k \in (j + 1)..Len(json_data) :
                     ~(HasOpen(k) /\ json_data[k][1] = json_data[j][1]))
              => InDict(j)
        /\ \A j \in 1..Len(json_data) :
              ~HasOpen(j) =>
                  \A e \in 1..Len(afx_2017_data) :
                      afx_2017_data[e].key = json_data[j][1] =>
                          afx_2017_data[e].val # Stored(j)

\* C8 witness: of two rows of different dates the one without an opening price
\* is left out and the other one is kept, and the opening prices were read.
C8_Witness ==
    /\ "opening_prices" \in bound
    /\ Len(json_data) = 2
    /\ ~HasOpen(1)
    /\ HasOpen(2)
    /\ json_data[1][1] # json_data[2][1]
    /\ Len(afx_2017_data) = 1
    /\ InDict(2)

\* C9: no list built from the filtered records (the opening, high, low and
\* closing prices, the traded volumes) holds a None.
NoNone(list) == \A j \in 1..Len(list) : list[j] # None

C9_SamplesHoldNoNone ==
    /\ NoNone(opening_prices)
    /\ NoNone(closing_prices)
    /\ NoNone(daily_volumes)
    /\ "afx_2017_data" \in bound =>
          \A e \in 1..Len(afx_2017_data) :
              \A c \in {"Open", "High", "Low", "Close", "Traded Volume"} :
                  afx_2017_data[e].val[c] # None

\* ------------------------------------------------- Part B: floating-point values
\* A float is modelled by the real number it stands for, exactly where the
\* notebook's arithmetic stays within the rationals and their square roots:
\*   Q(r)          the rational r,
\*   Surd(sgn, q)  sgn * sqrt(q), q a rational >= 0 and sgn in {-1, 0, 1},
\*   Inf(sgn)      plus or minus infinity,
\*   NaN           not a number.
Q(r) == [kind |-> "q", r |-> r]
Surd(sgn, q) == [kind |-> "surd", sgn |-> IF q.num = 0 THEN 0 ELSE sgn, sq |-> q]
Inf(sgn) == [kind |-> "inf", sgn |-> sgn]

\* x ** 2
FSquare(x) ==
    CASE x.kind = "nan" -> NaN
      [] x.kind = "inf" -> Inf(1)
      [] x.kind = "q" -> Q(RatMul(x.r, x.r))
      [] x.kind = "surd" -> Q(x.sq)

\* k * x, k a Python int and x a float that is a rational
FTimesInt(k, x) ==
    CASE x.kind = "nan" -> NaN
      [] x.kind = "q" -> Q(RatMul(Rat(k, 1), x.r))

\* x + y and x - y on floats that are rationals
FAdd(x, y) == IF x.kind = "nan" \/ y.kind = "nan" THEN NaN ELSE Q(RatAdd(x.r, y.r))
FSub(x, y) == IF x.kind = "nan" \/ y.kind = "nan" THEN NaN ELSE Q(RatSub(x.r, y.r))

\* x / d, x a numpy float that is a rational and d a Python int: numpy divides
\* by zero without raising (infinity, or nan for 0 / 0).
FOverInt(x, d) ==
    CASE x.kind = "nan" -> NaN
      [] x.kind = "q" /\ d = 0 -> IF x.r.num = 0 THEN NaN ELSE Inf(Sign(x.r.num))
      [] x.kind = "q" /\ d # 0 -> Q(RatDiv(x.r, Rat(d, 1)))

\* np.sqrt(x), x a float that is a rational
FSqrt(x) ==
    CASE x.kind = "nan" -> NaN
      [] x.kind = "inf" -> IF x.sgn > 0 THEN Inf(1) ELSE NaN
      [] x.kind = "q" -> IF x.r.num < 0 THEN NaN ELSE Surd(1, x.r)

\* x * y on two square roots
FMul(x, y) ==
    CASE x.kind = "nan" \/ y.kind = "nan" -> NaN
      [] x.kind = "inf" /\ y.kind = "surd" -> IF y.sgn = 0 THEN NaN ELSE Inf(x.sgn * y.sgn)
      [] x.kind = "surd" /\ y.kind = "surd" -> Surd(x.sgn * y.sgn, RatMul(x.sq, y.sq))

\* x / y, x a float that is a rational and y a square root (numpy: no exception
\* on a zero divisor)
FDiv(x, y) ==
    CASE x.kind = "nan" \/ y.kind = "nan" -> NaN
      [] x.kind = "q" /\ y.kind = "inf" -> Surd(0, Rat(0, 1))
      [] x.kind = "q" /\ y.kind = "surd" /\ y.sgn = 0 ->
            IF x.r.num = 0 THEN NaN ELSE Inf(Sign(x.r.num))
      [] x.kind = "q" /\ y.kind = "surd" /\ y.sgn # 0 ->
            Surd(Sign(x.r.num) * y.sgn, RatDiv(RatMul(x.r, x.r), y.sq))

\* -x
FNeg(x) ==
    CASE x.kind = "nan" -> NaN
      [] x.kind = "inf" -> Inf(-x.sgn)
      [] x.kind = "surd" -> Surd(-x.sgn, x.sq)
      [] x.kind = "q" -> Q(Rat(-x.r.num, x.r.den))

\* x == y on floats: nan is equal to nothing, itself included
FEq(x, y) == x.kind # "nan" /\ y.kind # "nan" /\ x = y

\* -abs(x)
FNegAbs(x) ==
    CASE x.kind = "nan" -> NaN
      [] x.kind = "inf" -> Inf(-1)
      [] x.kind = "surd" -> Surd(-1, x.sq)

\* ------------------------------------------------- Part B: pandas and scipy
RECURSIVE SeriesSum(_)
SeriesSum(xs) == IF xs = <<>> THEN 0 ELSE Head(xs) + SeriesSum(Tail(xs))

RECURSIVE SeriesSumSq(_)
SeriesSumSq(xs) == IF xs = <<>> THEN 0 ELSE Head(xs) * Head(xs) + SeriesSumSq(Tail(xs))

\* Series.mean(): nan on an empty series
series_mean(xs) == IF xs = <<>> THEN NaN ELSE Q(Rat(SeriesSum(xs), Len(xs)))

\* Series.std(): the n-1 denominator; nan on fewer than two values
series_std(xs) ==
    LET len == Len(xs)
    IN  IF len < 2 THEN NaN
        ELSE FSqrt(Q(Rat(len * SeriesSumSq(xs) - SeriesSum(xs) * SeriesSum(xs), len * (len - 1))))

\* medical['charges'][mask]
RECURSIVE Masked(_, _)
Masked(rows, mask) ==
    IF rows = <<>> THEN <<>>
    ELSE (IF Head(mask) THEN <<Head(rows).charges>> ELSE <<>>) \o Masked(Tail(rows), Tail(mask))

\* Probabilities are kept in fixed point, as multiples of 1/Scale.
Scale == 10 ^ 4
PiScaled == (355 * Scale) \div 113
Prob(v) == [kind |-> "fix", val |-> v]

RECURSIVE ISqrtIn(_, _, _)
ISqrtIn(k, lo, hi) ==
    IF lo = hi THEN lo
    ELSE LET mid == (lo + hi + 1) \div 2
         IN  IF mid * mid <= k THEN ISqrtIn(k, mid, hi) ELSE ISqrtIn(k, lo, mid - 1)

\* the integer part of the square root of k < 2^31
ISqrt(k) == ISqrtIn(k, 0, 46340)

\* The angle (scaled) of scaled sine sn >= 0 and cosine cs >= 0: two half-angle
\* steps, then the arctangent series to its fifth term.
Angle(sn, cs) ==
    LET z == (sn * Scale) \div (Scale + cs)
        u == (z * Scale) \div (Scale + ISqrt(Scale * Scale + z * z))
        u2 == (u * u) \div Scale
        u3 == (u * u2) \div Scale
        u5 == (u3 * u2) \div Scale
        u7 == (u5 * u2) \div Scale
        u9 == (u7 * u2) \div Scale
    IN  4 * (u - u3 \div 3 + u5 \div 5 - u7 \div 7 + u9 \div 9)

\* 1 + (1/2) c + (1*3)/(2*4) c^2 + ... (first = 1), or
\* 1 + (2/3) c + (2*4)/(3*5) c^2 + ... (first = 2), m terms after the 1, scaled.
RECURSIVE CosSeries(_, _, _, _)
CosSeries(c2, first, left, term) ==
    IF left = 0 THEN 0
    ELSE LET next == (((term * c2) \div Scale) * first) \div (first + 1)
         IN  next + CosSeries(c2, first + 2, left - 1, next)

\* P(|T| <= |t|) for Student's t with nu >= 1 degrees of freedom, scaled, where
\* t^2 is the rational sq (Abramowitz and Stegun 26.7.3 and 26.7.4 with
\* theta = arctan(|t| / sqrt(nu))).
TwoTailInside(sq, nu) ==
    LET c2 == (nu * sq.den * Scale) \div (nu * sq.den + sq.num)
        s2 == (sq.num * Scale) \div (nu * sq.den + sq.num)
        sn == ISqrt(s2 * Scale)
        cs == ISqrt(c2 * Scale)
        a == IF nu % 2 = 0
             THEN (sn * (Scale + CosSeries(c2, 1, nu \div 2 - 1, Scale))) \div Scale
             ELSE IF nu = 1 THEN (2 * Angle(sn, cs) * Scale) \div PiScaled
             ELSE (2 * Scale * (Angle(sn, cs)
                     + (((sn * cs) \div Scale)
                           * (Scale + CosSeries(c2, 2, (nu - 3) \div 2, Scale))) \div Scale))
                  \div PiScaled
    IN  IF a > Scale THEN Scale ELSE a

\* scipy.stats.t.cdf(x, df=nu): 1/2 + sign(x) * P(|T| <= |x|) / 2; nan for a
\* nan argument or nu <= 0.
tcdf(x, nu) ==
    CASE x.kind = "nan" \/ nu <= 0 -> NaN
      [] x.kind = "inf" /\ nu > 0 -> Prob(IF x.sgn > 0 THEN Scale ELSE 0)
      [] x.kind = "surd" /\ nu > 0 ->
            Prob((Scale + x.sgn * TwoTailInside(x.sq, nu)) \div 2)

\* 2 * p
TwiceProb(p) == IF p.kind = "nan" THEN NaN ELSE Prob(2 * p.val)

\* ------------------------------------------------- Part B: the interval's floats
\* A float of cells 7..9 is Q(r), r a representable rational, or NaN, or
\* Inf(sgn); every operation rounds its exact result.


\* the square root of the rational q >= 0 to 8 more bits than a float keeps
SqrtApprox(q) == Rat(ISqrt(q.num * q.den * (4 ^ (MantissaBits + 4))),
                     q.den * (2 ^ (MantissaBits + 4)))

\* the float of an exact value
Fl(x) ==
    CASE x.kind = "nan" -> NaN
      [] x.kind = "inf" -> x
      [] x.kind = "q" -> Q(FlRound(x.r))
      [] x.kind = "surd" ->
            LET a == SqrtApprox(x.sq) IN Q(FlRound(Rat(x.sgn * a.num, a.den)))

\* x + y, x - y, x * y and x / y on floats; numpy divides by zero without raising
FlAdd(x, y) ==
    IF x.kind = "nan" \/ y.kind = "nan" THEN NaN ELSE Q(FlRound(RatAdd(x.r, y.r)))

FlSub(x, y) ==
    IF x.kind = "nan" \/ y.kind = "nan" THEN NaN ELSE Q(FlRound(RatSub(x.r, y.r)))

FlMul(x, y) ==
    IF x.kind = "nan" \/ y.kind = "nan" THEN NaN ELSE Q(FlRound(RatMul(x.r, y.r)))

FlDiv(x, y) ==
    CASE x.kind = "nan" \/ y.kind = "nan" -> NaN
      [] x.kind = "q" /\ y.kind = "q" /\ y.r.num = 0 ->
            IF x.r.num = 0 THEN NaN ELSE Inf(Sign(x.r.num))
      [] x.kind = "q" /\ y.kind = "q" /\ y.r.num # 0 -> Q(FlRound(RatDiv(x.r, y.r)))

\* np.sqrt(k), k a Python int >= 0
FlSqrt(k) == Fl(Surd(1, Rat(k, 1)))

\* x <= y on floats: False when either is nan
FlLeq(x, y) ==
    /\ x.kind = "q"
    /\ y.kind = "q"
    /\ x.r.num * y.r.den <= y.r.num * x.r.den

\* The least k in lo..hi with t.cdf(k / 10, nu) >= q, hi when there is none.
RECURSIVE PpfSearch(_, _, _, _)
PpfSearch(q, nu, lo, hi) ==
    IF lo = hi THEN lo
    ELSE LET mid == (lo + hi) \div 2
         IN  IF tcdf(Surd(1, Rat(mid * mid, 100)), nu).val >= q
             THEN PpfSearch(q, nu, lo, mid)
             ELSE PpfSearch(q, nu, mid + 1, hi)

\* scipy.stats.t.ppf(q, df=nu), q a probability of at least 1/2 in units of
\* 1/Scale: the inverse of t.cdf, searched in steps of 1/10 up to 20; nan for
\* nu <= 0.
tppf(q, nu) ==
    IF nu <= 0 THEN NaN ELSE Q(FlRound(Rat(PpfSearch(q, nu, 0, 200), 10)))

\* ------------------------------------------------- Part B: cells 6..14, run in order
\* the .975 of cell 7, in units of 1/Scale
t_star_probability == (975 * Scale) \div 1000

\* The interval the answer to Q3 selects ("We should use a one-sided interval")
\* and the confidence level Q3 asks for ("the relevant 95% confidence
\* interval"), in units of 1/Scale.
interval_selected == "one-sided"
confidence_level == (95 * Scale) \div 100

\* medical['charges']
charges == [j \in 1..Len(medical) |-> medical[j].charges]

\* the sum of a series of floats: the running total from the left, rounded
\* after each addition
RECURSIVE FlSum(_)
FlSum(xs) ==
    IF xs = <<>> THEN Q(Rat(0, 1))
    ELSE FlAdd(FlSum(SubSeq(xs, 1, Len(xs) - 1)), xs[Len(xs)])

\* Series.mean() in floats: the sum over the count; nan on an empty series
charges_mean(xs) ==
    IF xs = <<>> THEN NaN
    ELSE FlDiv(FlSum([j \in 1..Len(xs) |-> Q(Rat(xs[j], 1))]), Q(Rat(Len(xs), 1)))

\* the standard deviation with the deviations taken from 0
charges_std_about_zero(xs) ==
    IF Len(xs) < 2 THEN NaN
    ELSE LET sqr == [j \in 1..Len(xs) |-> FlMul(Q(Rat(xs[j], 1)), Q(Rat(xs[j], 1)))]
             var == FlDiv(FlSum(sqr), Q(Rat(Len(xs) - 1, 1)))
         IN  Fl(Surd(1, var.r))

\* Series.std() in floats (pandas' nanvar with ddof = 1, then the square
\* root): avg = sum / count, then the sum of (avg - value) ** 2 over count - 1;
\* nan on fewer than two values.
charges_std(xs) ==
    IF Len(xs) < 2 THEN NaN
    ELSE LET avg == charges_mean(xs)
             dev == [j \in 1..Len(xs) |-> FlSub(avg, Q(Rat(xs[j], 1)))]
             sqr == [j \in 1..Len(xs) |-> FlMul(dev[j], dev[j])]
             var == FlDiv(FlSum(sqr), Q(Rat(Len(xs) - 1, 1)))
         IN  Fl(Surd(1, var.r))

\* the ends in the other order
interval_ends_reversed(xb, mg) == <<FlAdd(xb, mg), FlSub(xb, mg)>>

\* the upper end taken at the mean
interval_ends_lower_only(xb, mg) == <<FlSub(xb, mg), xb>>

\* c_min, c_max = x_bar - m, x_bar + m
interval_ends(xb, mg) == <<FlSub(xb, mg), FlAdd(xb, mg)>>

\* cell 6
CellB6 ==
    /\ pc = "B6"
    /\ std_shown' = Value(charges_std(charges))
    /\ pc' = "B7"
    /\ UNCHANGED <<bound, lists, daily_volumes, stats, medical, interval, groups,
                   all_data, test, reference, raised>>

\* cell 7
CellB7 ==
    /\ pc = "B7"
    /\ n' = Len(medical)
    /\ t_star' = tppf(t_star_probability, n' - 1)
    /\ pc' = "B8"
    /\ UNCHANGED <<bound, lists, daily_volumes, stats, medical, std_shown, x_bar, se, m, c_min,
                   c_max, groups, all_data, test, reference, raised>>

\* cell 8
CellB8 ==
    /\ pc = "B8"
    /\ x_bar' = charges_mean(charges)
    /\ se' = FlDiv(charges_std(charges), FlSqrt(n))
    /\ pc' = "B9"
    /\ UNCHANGED <<bound, lists, daily_volumes, stats, medical, std_shown, n, t_star, m, c_min,
                   c_max, groups, all_data, test, reference, raised>>

\* cell 9
CellB9 ==
    /\ pc = "B9"
    /\ m' = FlMul(t_star, se)
    /\ c_min' = interval_ends(x_bar, m')[1]
    /\ c_max' = interval_ends(x_bar, m')[2]
    /\ pc' = "B10"
    /\ UNCHANGED <<bound, lists, daily_volumes, stats, medical, std_shown, n, t_star, x_bar, se,
                   groups, all_data, test, reference, raised>>

\* s_p = np.sqrt((((n_0 - 1) * (s_0 ** 2)) + ((n_1 - 1) * (s_1 ** 2))) / (n_0 + n_1 - 2))
pooled_std(n0, s0, n1, s1) ==
    FSqrt(FOverInt(FAdd(FTimesInt(n0 - 1, FSquare(s0)), FTimesInt(n1 - 1, FSquare(s1))),
                   n0 + n1 - 2))

\* the statistic without the sign of the difference of the means
t_statistic_unsigned(x0, x1, sp, n0, n1) ==
    LET d == FSub(x0, x1)
    IN  FDiv(IF d.kind = "q" THEN Q(Rat(Abs(d.r.num), d.r.den)) ELSE d,
             FMul(sp, FSqrt(Q(RatAdd(Rat(1, n0), Rat(1, n1))))))

\* t_manual = (xbar_0 - xbar_1) / (s_p * np.sqrt(1/n_0 + 1/n_1)), for n_0 and
\* n_1 other than 0
t_statistic(x0, x1, sp, n0, n1) ==
    FDiv(FSub(x0, x1), FMul(sp, FSqrt(Q(RatAdd(Rat(1, n0), Rat(1, n1))))))

\* prob = 2 * stdtr(df, -abs(t)) of ttest_ind: the two-sided p-value
\* 2 * F(-|t|; df)
p_value_two_sided(t, nu) == TwiceProb(tcdf(FNegAbs(t), nu))

\* np.var(xs, ddof=1): nan on fewer than two values
series_var(xs) ==
    LET len == Len(xs)
    IN  IF len < 2 THEN NaN
        ELSE Q(Rat(len * SeriesSumSq(xs) - SeriesSum(xs) * SeriesSum(xs), len * (len - 1)))

\* scipy.stats.ttest_ind(a, b) with equal variances, a and b not empty:
\*   df = n1 + n2 - 2
\*   svar = ((n1 - 1) * v1 + (n2 - 1) * v2) / df
\*   denom = np.sqrt(svar * (1.0 / n1 + 1.0 / n2))
\*   t = (mean(a) - mean(b)) / denom
\*   prob = 2 * stdtr(df, -abs(t))
ttest_ind(a, b) ==
    LET n1 == Len(a)
        n2 == Len(b)
        nu == n1 + n2 - 2
        svar == FOverInt(FAdd(FTimesInt(n1 - 1, series_var(a)),
                              FTimesInt(n2 - 1, series_var(b))), nu)
        denom == IF svar.kind = "q"
                 THEN FSqrt(Q(RatMul(svar.r, RatAdd(Rat(1, n1), Rat(1, n2)))))
                 ELSE NaN
        stat == FDiv(FSub(series_mean(a), series_mean(b)), denom)
    IN  [statistic |-> stat, pvalue |-> p_value_two_sided(stat, nu)]

\* the p-value of cell 13 with the statistic replaced by -|t|
p_value_of_abs(t, nu) == TwiceProb(tcdf(FNegAbs(t), nu))

\* p_manual = 2 * t.cdf(t_manual, df=df)
p_value(t, nu) == TwiceProb(tcdf(t, nu))

\* the rows whose insuranceclaim is at most v
mask_at_most(rows, v) == [j \in 1..Len(rows) |-> rows[j].insuranceclaim <= v]

\* medical['insuranceclaim'] == v
mask(rows, v) == [j \in 1..Len(rows) |-> rows[j].insuranceclaim = v]

\* cell 10
CellB10 ==
    /\ pc = "B10"
    /\ group_0' = mask(medical, 0)
    /\ group_1' = mask(medical, 1)
    /\ pc' = "B11"
    /\ UNCHANGED <<bound, lists, daily_volumes, stats, medical, std_shown, interval,
                   n_0, xbar_0, s_0, n_1, xbar_1, s_1, all_data, test, reference, raised>>

\* cell 11
CellB11 ==
    /\ pc = "B11"
    /\ LET c0 == Masked(medical, group_0)
           c1 == Masked(medical, group_1)
       IN  /\ n_0' = Len(c0) /\ xbar_0' = series_mean(c0) /\ s_0' = series_std(c0)
           /\ n_1' = Len(c1) /\ xbar_1' = series_mean(c1) /\ s_1' = series_std(c1)
    /\ pc' = "B12"
    /\ UNCHANGED <<bound, lists, daily_volumes, stats, medical, std_shown, interval,
                   group_0, group_1, all_data, test, reference, raised>>

\* cell 12: n_0 + n_1 == n
CellB12 ==
    /\ pc = "B12"
    /\ all_data' = Value(n_0 + n_1 = n)
    /\ pc' = "B13"
    /\ UNCHANGED <<bound, lists, daily_volumes, stats, medical, std_shown, interval, groups,
                   test, reference, raised>>

\* cell 13: 1/n_0 and 1/n_1 divide Python ints, which raises on a zero divisor
\* after s_p has been bound.
CellB13 ==
    /\ pc = "B13"
    /\ s_p' = pooled_std(n_0, s_0, n_1, s_1)
    /\ IF n_0 = 0 \/ n_1 = 0
       THEN /\ raised' = "ZeroDivisionError"
            /\ pc' = "halt"
            /\ UNCHANGED <<t_manual, df, p_manual>>
       ELSE /\ t_manual' = t_statistic(xbar_0, xbar_1, s_p', n_0, n_1)
            /\ df' = n_0 + n_1 - 2
            /\ p_manual' = p_value(t_manual', df')
            /\ pc' = "B14"
            /\ UNCHANGED raised
    /\ UNCHANGED <<bound, lists, daily_volumes, stats, medical, std_shown, interval, groups,
                   all_data, reference>>

\* cell 14: t_calc, p_calc = ttest_ind(medical['charges'][group_0],
\* medical['charges'][group_1])
CellB14 ==
    /\ pc = "B14"
    /\ LET r == ttest_ind(Masked(medical, group_0), Masked(medical, group_1))
       IN  /\ t_calc' = r.statistic
           /\ p_calc' = r.pvalue
    /\ pc' = "done"
    /\ UNCHANGED <<bound, lists, daily_volumes, stats, medical, std_shown, interval, groups,
                   all_data, test, raised>>

NextPartB ==
    \/ CellB6 \/ CellB7 \/ CellB8 \/ CellB9
    \/ CellB10 \/ CellB11 \/ CellB12 \/ CellB13 \/ CellB14

MaxRecords == 4  \* most rows of the data frame
Charges == {0, 1, 3}
Rows == [charges : Charges, insuranceclaim : {0, 1}]

InitPartB ==
    /\ medical \in SeqsUpTo(Rows, MaxRecords)
    /\ pc = "B6"
    /\ PartBUnbound
    /\ bound = {}
    /\ json_data = <<>>
    /\ afx_2017_data = <<>>
    /\ opening_prices = <<>>
    /\ price_differences = <<>>
    /\ closing_prices = <<>>
    /\ closing_differences = <<>>
    /\ out = [c \in PrintingCells |-> Unset]
    /\ daily_volumes = <<>>
    /\ mean_volume = Unset
    /\ mean_match = Unset
    /\ stat_median = Unset
    /\ med = Unset
    /\ match = Unset

SpecPartB == InitPartB /\ [][NextPartB]_vars

\* ------------------------------------------------------------------ claim C10
\* C10: whenever the statistic is a number, the p-value of cell 13 is
\* 2 * F(-|t|; df) and lies between 0 and 1.
C10_PValueInUnitInterval ==
    (pc = "done" /\ t_manual.kind # "nan") =>
        /\ p_manual = p_value_two_sided(t_manual, df)
        /\ 0 <= p_manual.val
        /\ p_manual.val <= Scale

\* ------------------------------------------------------------ claims C11, C12
\* The run of cell 13 on the two groups in the other order: group 1 takes the
\* place of group 0 in every formula of the cell.
s_p_swapped == pooled_std(n_1, s_1, n_0, s_0)
t_manual_swapped == t_statistic(xbar_1, xbar_0, s_p_swapped, n_1, n_0)
df_swapped == n_1 + n_0 - 2
p_manual_swapped == p_value(t_manual_swapped, df_swapped)

BothGroupsAtLeastTwo == pc = "done" /\ n_0 >= 2 /\ n_1 >= 2

\* C11: for two groups of at least 2 observations each, the statistic of the
\* groups in one order is the negation of the statistic in the other order,
\* and the degrees of freedom and the pooled standard deviation are the same.
C11_TAntisymmetric ==
    BothGroupsAtLeastTwo =>
        /\ FEq(t_manual, FNeg(t_manual_swapped))
        /\ df = df_swapped
        /\ FEq(s_p, s_p_swapped)

\* C11 (amended): the same, for groups on which the statistic is a number;
\* where it is not a number (0 / 0: both groups constant, with the same value)
\* it is not a number in the other order either.
C11_TAntisymmetricWhereDefined ==
    BothGroupsAtLeastTwo =>
        /\ df = df_swapped
        /\ FEq(s_p, s_p_swapped)
        /\ IF t_manual.kind = "nan"
           THEN /\ t_manual_swapped.kind = "nan"
                /\ s_p.sgn = 0
                /\ xbar_0 = xbar_1
           ELSE FEq(t_manual, FNeg(t_manual_swapped))

C11_Witness ==
    /\ BothGroupsAtLeastTwo
    /\ t_manual.kind = "surd"
    /\ t_manual.sgn = 1
    /\ t_manual_swapped.sgn = -1

C11_WitnessNaN == BothGroupsAtLeastTwo /\ t_manual.kind = "nan"

\* C12: for two groups of at least 2 observations each, the p-value of the
\* groups in one order equals the p-value in the other order.
C12_PValueSwapInvariant ==
    BothGroupsAtLeastTwo /\ t_manual.kind # "nan" =>
        p_manual = p_manual_swapped

\* ------------------------------------------------------------ claims C13..C16
IntervalComputed == pc \notin {"B6", "B7", "B8", "B9"}

\* C13: when a one-sided interval is selected at confidence level c, the
\* critical value is the quantile of Student's t with n - 1 degrees of freedom
\* at probability 1 - (1 - c); the probability 1 - (1 - c) / 2 is used only
\* when a two-sided interval is selected.
C13_OneSidedCriticalValue ==
    (pc \notin {"B6", "B7"} /\ n >= 2) =>
        t_star = tppf(IF interval_selected = "one-sided"
                      THEN Scale - (Scale - confidence_level)
                      ELSE Scale - (Scale - confidence_level) \div 2,
                      n - 1)

\* |a - b| <= bnd on rationals, bnd >= 0
RatWithin(a, b, bnd) ==
    LET d == RatSub(a, b)
    IN  Abs(d.num) * bnd.den <= bnd.num * d.den

\* C14: the two-sided interval is symmetric around the mean: upper - mean and
\* mean - lower are equal, and equal to the margin t* times the standard error,
\* for every n >= 2.
C14_IntervalSymmetric ==
    (IntervalComputed /\ n >= 2) =>
        /\ FEq(FlSub(c_max, x_bar), FlSub(x_bar, c_min))
        /\ FEq(FlSub(c_max, x_bar), m)
        /\ FEq(m, FlMul(t_star, se))

\* C14 (amended): the two ends are the mean plus and minus the margin, each
\* rounded once, so upper - mean and mean - lower are the margin to within one
\* rounding of an end (2^-MantissaBits relative to the end), and equal to
\* each other wherever neither end was rounded.
C14_IntervalSymmetricWithinRounding ==
    (IntervalComputed /\ n >= 2) =>
        /\ m = FlMul(t_star, se)
        /\ m.kind = "q" /\ x_bar.kind = "q" /\ c_min.kind = "q" /\ c_max.kind = "q"
        /\ RatWithin(RatSub(c_max.r, x_bar.r), m.r,
                     Rat(Abs(c_max.r.num), c_max.r.den * (2 ^ MantissaBits)))
        /\ RatWithin(RatSub(x_bar.r, c_min.r), m.r,
                     Rat(Abs(c_min.r.num), c_min.r.den * (2 ^ MantissaBits)))
        /\ (c_max.r = RatAdd(x_bar.r, m.r) /\ c_min.r = RatSub(x_bar.r, m.r)) =>
               /\ FEq(FlSub(c_max, x_bar), FlSub(x_bar, c_min))
               /\ FEq(FlSub(c_max, x_bar), m)

\* C14 witness: an interval around a mean with a margin above 0, one of whose
\* ends was rounded.
C14_Witness ==
    /\ IntervalComputed
    /\ n >= 2
    /\ m.r.num > 0
    /\ c_max.r # RatAdd(x_bar.r, m.r)
    /\ ~FEq(FlSub(c_max, x_bar), FlSub(x_bar, c_min))

\* C14 witness: an interval with a margin above 0 and neither end rounded.
C14_WitnessExact ==
    /\ IntervalComputed
    /\ n >= 2
    /\ m.r.num > 0
    /\ c_max.r = RatAdd(x_bar.r, m.r)
    /\ c_min.r = RatSub(x_bar.r, m.r)

\* C15: every two-sided interval has lower <= upper, for every n >= 2 (the
\* standard deviation is >= 0 and the confidence level is 95%).
C15_LowerAtMostUpper ==
    (IntervalComputed /\ n >= 2) =>
        /\ FlLeq(c_min, c_max)
        /\ FlLeq(c_min, x_bar)
        /\ FlLeq(x_bar, c_max)

\* C15 witness: an interval with lower < upper and one with lower = upper.
C15_Witness ==
    /\ IntervalComputed
    /\ n >= 2
    /\ FlLeq(c_min, c_max)
    /\ c_min # c_max

C15_WitnessPoint ==
    /\ IntervalComputed
    /\ n >= 2
    /\ c_min = c_max
    /\ c_min.kind = "q"

\* C16: with fewer than 2 rows the computation of the interval ends in
\* InvalidParameterError and binds no interval.
C16_InvalidParameterError ==
    (IntervalComputed /\ n < 2) =>
        /\ raised = "InvalidParameterError"
        /\ c_min.kind # "q"
        /\ c_max.kind # "q"

\* ------------------------------------------------------------ claims C17..C19
TestComputed == pc \in {"B14", "done", "halt"}

\* C17: when either group has fewer than 2 observations, n_0 = n_1 = 1
\* included, the test ends in InvalidParameterError and binds no statistic and
\* no p-value.
C17_TooFewObservations ==
    (TestComputed /\ (n_0 < 2 \/ n_1 < 2)) =>
        /\ pc = "halt"
        /\ raised = "InvalidParameterError"

\* C18: the standard deviation of fewer than 2 observations ends in
\* InsufficientDataError; no not-a-number goes on into the standard error or
\* the pooled standard deviation.
C18_InsufficientDataError ==
    /\ (pc \notin {"B6", "B7", "B8"} /\ n < 2) =>
          /\ raised = "InsufficientDataError"
          /\ se.kind # "nan"
    /\ (pc \in {"B12", "B13", "B14", "done", "halt"} /\ (n_0 < 2 \/ n_1 < 2)) =>
          /\ raised = "InsufficientDataError"
          /\ s_0.kind # "nan" /\ s_1.kind # "nan"
    /\ TestComputed => s_p.kind # "nan"

\* C19: the two masks of cell 10 split the rows in two: every row is in exactly
\* one group, so n_0 + n_1 = n and cell 12 shows True.
C19_GroupsPartition ==
    /\ pc \in {"B11", "B12", "B13", "B14", "done", "halt"} =>
          /\ Len(group_0) = Len(medical)
          /\ Len(group_1) = Len(medical)
          /\ \A j \in 1..Len(medical) : group_0[j] # group_1[j]
    /\ pc \in {"B12", "B13", "B14", "done", "halt"} =>
          /\ n_0 + n_1 = n
          /\ n_0 = Cardinality({j \in 1..Len(medical) : group_0[j]})
          /\ n_1 = Cardinality({j \in 1..Len(medical) : group_1[j]})
    /\ all_data.kind # "unset" => all_data = Value(TRUE)

\* C19 witness: cell 12 has shown True on data with rows in both groups.
C19_Witness ==
    /\ all_data = Value(TRUE)
    /\ n_0 >= 1
    /\ n_1 >= 1
    /\ n = n_0 + n_1
    /\ n >= 3

\* ------------------------------------------------------------------ claim C20
\* C20: on every non-empty list the mean of cell 22 is the sum of the values
\* divided by their count and equals statistics.mean of the same values; cell
\* 23 prints True.
C20_MeanIsReferenceMean ==
    /\ daily_volumes # <<>> => mean(daily_volumes) = statistics_mean(daily_volumes)
    /\ mean_match.kind = "value" => mean_match.val = TRUE

\* the running total of sum() is the exact sum
SumIsExact(s) == Sum(s) = Rat(ExactSum(s), 1)

\* C20 (amended): on every non-empty list the mean of cell 22 is the running
\* total of the values, rounded after each addition, divided by their count;
\* it equals statistics.mean, which rounds once, wherever the running total
\* is exact, and otherwise differs from it by no more than the roundings of
\* the total: (2^MantissaBits - (k + 1)) * k * |difference| <= (k + 1) * sum
\* for k values.  (A call of median in between leaves the list in another
\* order, and the running total depends on the order.)
C20_MeanIsReferenceMeanWithinRounding ==
    /\ daily_volumes # <<>> =>
          LET k == Len(daily_volumes)
              a == mean(daily_volumes)
              b == statistics_mean(daily_volumes)
          IN  /\ a.kind = "value"
              /\ b.kind = "value"
              /\ SumIsExact(daily_volumes) => a = b
              /\ RatWithin(RatMul(Rat((2 ^ MantissaBits - (k + 1)) * k, 1), a.val),
                           RatMul(Rat((2 ^ MantissaBits - (k + 1)) * k, 1), b.val),
                           Rat((k + 1) * ExactSum(daily_volumes), 1))
    /\ (mean_volume.kind = "value" /\ daily_volumes # <<>>) =>
          \E P \in Perms(daily_volumes) : mean_volume = mean(P)
    /\ (mean_match.kind = "value" /\ \A P \in Perms(daily_volumes) : SumIsExact(P)) =>
          mean_match.val = TRUE

\* C20 witness: cell 23 has printed True on a list of several values whose
\* mean is not one of them.
C20_Witness ==
    /\ mean_match = Value(TRUE)
    /\ Len(daily_volumes) >= 3
    /\ SumIsExact(daily_volumes)
    /\ mean_volume.val.den # 1

\* C20 witness: cell 23 has printed False.
C20_WitnessRounded ==
    /\ mean_match = Value(FALSE)
    /\ ~SumIsExact(daily_volumes)

\* ------------------------------------------------------------------ claim C21
AllIdentical(xs) == \A j \in 1..Len(xs) : xs[j] = xs[1]

\* C21: the standard deviation of at least 2 identical values is exactly 0.
C21_StdOfIdenticalIsZero ==
    (std_shown.kind = "value" /\ Len(charges) >= 2 /\ AllIdentical(charges)) =>
        std_shown.val = Q(Rat(0, 1))

\* C21 (amended): the standard deviation of k >= 2 identical values v is
\* exactly 0 where their mean, sum / count in floats, is v itself; elsewhere
\* it is the rounding of that mean carried through the deviations, a number
\* >= 0 with (2^MantissaBits - (k + 1)) * std <= 3 * (k + 1) * |v|.
C21_StdOfIdenticalIsZeroWithinRounding ==
    (std_shown.kind = "value" /\ Len(charges) >= 2 /\ AllIdentical(charges)) =>
        LET k == Len(charges)
            v == Rat(charges[1], 1)
            sd == std_shown.val
        IN  /\ sd.kind = "q"
            /\ sd.r.num >= 0
            /\ charges_mean(charges) = Q(v) => sd = Q(Rat(0, 1))
            /\ charges_mean(charges) # Q(v) => sd.r.num > 0
            /\ RatWithin(RatMul(Rat(2 ^ MantissaBits - (k + 1), 1), sd.r), Rat(0, 1),
                         Rat(3 * (k + 1) * Abs(v.num), 1))

\* C21 witness: cell 6 has shown 0 for several identical values other than 0.
C21_Witness ==
    /\ std_shown = Value(Q(Rat(0, 1)))
    /\ Len(charges) >= 3
    /\ AllIdentical(charges)
    /\ charges[1] # 0

\* C21 witness: cell 6 has shown a number above 0 for identical values.
C21_WitnessRounded ==
    /\ std_shown.kind = "value"
    /\ Len(charges) >= 2
    /\ AllIdentical(charges)
    /\ std_shown.val.kind = "q"
    /\ std_shown.val.r.num > 0

\* ------------------------------------------------------------ claims C22, C23
\* C22: for two groups of at least 2 observations each the statistic and the
\* p-value of cell 13 agree with those of ttest_ind on the same groups (the
\* statistic as a real number, the p-value to the last digit of the fixed
\* point).
C22_AgreesWithTTestInd ==
    (BothGroupsAtLeastTwo /\ t_manual.kind # "nan") =>
        /\ FEq(t_manual, t_calc)
        /\ Abs(p_manual.val - p_calc.val) <= 2

\* t > 0 and t <= 0 on a statistic that is a number
Positive(t) == t.sgn > 0

\* C23: the p-value of cell 13, twice the distribution function at t, is the
\* two-sided p-value 2 * F(-|t|; df) when t <= 0 and differs from it when
\* t > 0.
C23_PValueRightIffNotPositive ==
    (TestComputed /\ pc # "halt" /\ t_manual.kind # "nan") =>
        /\ p_manual = p_value(t_manual, df)
        /\ ~Positive(t_manual) => p_manual = p_value_two_sided(t_manual, df)
        /\ Positive(t_manual) =>
              /\ p_manual # p_value_two_sided(t_manual, df)
              /\ p_manual.val + p_value_two_sided(t_manual, df).val \in
                    (2 * Scale - 2)..(2 * Scale)
              /\ p_manual.val > Scale

\* C23 witness: a statistic above 0, finite, with a p-value above 1.
C23_Witness ==
    /\ pc = "done"
    /\ t_manual.kind = "surd"
    /\ Positive(t_manual)
    /\ p_manual.val > Scale
    /\ p_calc = p_value_two_sided(t_manual, df)

\* C23 witness: a statistic below 0 whose p-value is the two-sided one.
C23_WitnessNegative ==
    /\ pc = "done"
    /\ t_manual.kind = "surd"
    /\ t_manual.sgn < 0
    /\ p_manual = p_value_two_sided(t_manual, df)
    /\ p_manual = p_calc

\* ------------------------------------------------------------------ claim C24
\* The sequence s read from its last element to its first.
Reverse(s) == [j \in 1..Len(s) |-> s[Len(s) + 1 - j]]

\* C24: the day-over-day computation gives the same result whether the records
\* arrive oldest-first or newest-first: the closing prices of the reversed
\* response are the reversed closing prices, their differences are the
\* reversed differences (or the same error), and the printed maximum is the
\* same.
C24_ReversalSymmetric ==
    "closing_prices" \in bound =>
        LET rev == Reverse(closing_prices)
            fwd == closing_differences_of(closing_prices)
            bwd == closing_differences_of(rev)
        IN  /\ Column(create_stock_price_dict(Reverse(json_data)), "Close") = rev
            /\ fwd.kind = "raise" => bwd = fwd
            /\ "closing_differences" \in bound =>
                  /\ bwd = Value(Reverse(closing_differences))
                  /\ Max(bwd.val) = Max(closing_differences)
            /\ out[20] # Unset => Max(bwd.val) = out[20]

\* C24 witness: three records whose differences [2, 1] are not their own
\* reverse, with the maximum 2 printed.
C24_Witness ==
    /\ closing_prices = <<Some(0), Some(2), Some(3)>>
    /\ closing_differences = <<Some(2), Some(1)>>
    /\ closing_differences_of(Reverse(closing_prices)) = Value(<<Some(1), Some(2)>>)
    /\ out[20] = Value(2)

\* ------------------------------------------------------------------ claim C25
\* A step that calls median on a non-empty daily_volumes: cell 26, or cell 27
\* (whose left operand does not raise on a non-empty list).
MedianCalled == (MedianCell \/ CompareCell) /\ daily_volumes # <<>>

\* C25: every call of median on the non-empty list leaves it with the same
\* multiset of values in ascending order and returns the value the call before
\* it returned; once median has been called the list is ascending, and one
\* more call would return the same value and leave the list as it is.
C25_RepeatedMedianStable ==
    /\ [][MedianCalled =>
            /\ daily_volumes' \in Perms(daily_volumes)
            /\ IsAscending(daily_volumes')
            /\ med'.kind = "value"
            /\ med.kind = "value" => med' = med]_vars
    /\ []((med.kind = "value" /\ daily_volumes # <<>>) =>
            /\ IsAscending(daily_volumes)
            /\ median(daily_volumes) = [ret |-> med, x |-> daily_volumes])

\* C25 witness: median has been called by cell 26 or 27 and again by cell 27 on
\* a list of four that was not ascending before the first call: its mean,
\* computed before, is not the mean of the list as it stands now.
C25_Witness ==
    /\ daily_volumes = <<Some(1), Some(1), Some(4), Some(4)>>
    /\ med = Value(Rat(5, 2))
    /\ match = Value(TRUE)
    /\ mean_volume.kind = "value"
    /\ mean_volume # mean(daily_volumes)

\* ------------------------------------------------------------------ claim C26
\* Row j has an opening price and is the first, or the last, such row of its date.
FirstOfDate(j) ==
    /\ HasOpen(j)
    /\ \A k \in 1..(j - 1) : ~(HasOpen(k) /\ json_data[k][1] = json_data[j][1])

LastOfDate(j) ==
    /\ HasOpen(j)
    /\ \A k \in (j + 1)..Len(json_data) : ~(HasOpen(k) /\ json_data[k][1] = json_data[j][1])

\* The number of dates first seen, with an opening price, on the rows up to j.
Position(j) == Cardinality({k \in 1..j : FirstOfDate(k)})

DatesDistinct ==
    \A j, k \in 1..Len(json_data) : j # k => json_data[j][1] # json_data[k][1]

\* C26: the dictionary holds the dates of the rows with an opening price in the
\* order of their first such row; each record is keyed by its date and holds
\* every column but the date with the row's value; rows of one date leave the
\* last of them, at the place of the first; with distinct dates there is one
\* entry per row with an opening price, in the order of the rows.
C26_OrderKeysAndDuplicates ==
    "afx_2017_data" \in bound =>
        LET N == Len(json_data)
        IN  /\ Len(afx_2017_data) = Cardinality({j \in 1..N : FirstOfDate(j)})
            /\ \A j \in 1..N :
                  FirstOfDate(j) => afx_2017_data[Position(j)].key = json_data[j][1]
            /\ \A j \in 1..N :
                  LastOfDate(j) =>
                      LET f == CHOOSE k \in 1..j :
                                   FirstOfDate(k) /\ json_data[k][1] = json_data[j][1]
                      IN  afx_2017_data[Position(f)].val = Stored(j)
            /\ \A e \in 1..Len(afx_2017_data) :
                  DOMAIN afx_2017_data[e].val =
                      {column_names[k] : k \in 1..Len(column_names)} \ {"Date"}
            /\ DatesDistinct =>
                  /\ Len(afx_2017_data) = Cardinality({j \in 1..N : HasOpen(j)})
                  /\ \A j \in 1..N :
                        HasOpen(j) =>
                            afx_2017_data[Cardinality({k \in 1..j : HasOpen(k)})] =
                                [key |-> json_data[j][1], val |-> Stored(j)]

\* C26 witness: three rows with opening prices, of the dates 1, 2, 1: the
\* dictionary has the keys 1, 2 in this order, and under 1 the third row.
C26_Witness ==
    /\ "afx_2017_data" \in bound
    /\ Len(json_data) = 3
    /\ \A j \in 1..3 : HasOpen(j)
    /\ <<json_data[1][1], json_data[2][1], json_data[3][1]>> = <<1, 2, 1>>
    /\ Len(afx_2017_data) = 2
    /\ afx_2017_data[1] = [key |-> 1, val |-> Stored(3)]
    /\ afx_2017_data[1].val # Stored(1)
    /\ afx_2017_data[2] = [key |-> 2, val |-> Stored(2)]

\* C26 witness of distinct dates: two rows with opening prices, both stored in
\* the order of the rows.
C26_WitnessDistinct ==
    /\ "afx_2017_data" \in bound
    /\ Len(json_data) = 2
    /\ DatesDistinct
    /\ HasOpen(1) /\ HasOpen(2)
    /\ afx_2017_data = <<[key |-> json_data[1][1], val |-> Stored(1)],
                         [key |-> json_data[2][1], val |-> Stored(2)]>>

====
